---- MODULE Spec2Model ----
(***************************************************************************)
(* A model of src/minesweeper.py: the Board and Game classes of a          *)
(* single-player minesweeper.  A Board is a dict from (row, column) to a   *)
(* value (an int 0..8 or the mine marker '*'), a list of uncovered         *)
(* coordinates and the startState flag; Game derives the status and makes  *)
(* moves.  Every public method is one action: a caller issues the call     *)
(* from the idle state, the handler runs to its return or its exception,   *)
(* and the outcome sits in ret until the caller takes it (Return).         *)
(* Spec drives the Board and the Game by these calls.  Session runs main   *)
(* and the loop of Game.run, one pass of the loop per step.  Scatter runs  *)
(* put_mines one random pick per step.                                     *)
(***************************************************************************)
EXTENDS Integers, Sequences, FiniteSets, TLC

VARIABLES rows, columns, board, uncovered, startState, ret, pre, loaded, moves,
          pc, placed

vars == <<rows, columns, board, uncovered, startState, ret, pre, loaded, moves,
          pc, placed>>

(* ---------------------------------------------------------------------- *)
(* Bounds of the model and constants of the program                       *)
(* ---------------------------------------------------------------------- *)

\* Boards of at most MaxCells cells are built.
MaxCells == 4

\* At most MaxMoves uncover / make_move calls succeed on one board, and the
\* board is scattered or loaded only before the last of them.
MaxMoves == 2

\* A session plays on a board of at most MaxSessionCells cells and at most
\* MaxSessionColumns columns.
MaxSessionCells == 6

MaxSessionColumns == 3

\* Board.__init__: rows >= 1 and columns >= 2.
MinRows == 1

MinColumns == 2

\* The board stores an int 0..8 or the string '*'; TLC cannot compare an
\* integer with a string, so the mine marker is stored as the number 9, which
\* no count reaches, and str() (below) turns it back into "*".
Mine == 9

\* GameStatus: NotStarted, InProgress, Win, Lose = range(4)
NotStarted == 0

InProgress == 1

Win == 2

Lose == 3

(* ---------------------------------------------------------------------- *)
(* Sequences as Python lists                                               *)
(* ---------------------------------------------------------------------- *)

Range(s) == {s[i] : i \in 1..Len(s)}

\* x in list
In(x, s) == \E i \in 1..Len(s) : s[i] = x

\* str(value) of a stored cell value
str(v) ==
  IF v = Mine THEN "*"
  ELSE <<"0", "1", "2", "3", "4", "5", "6", "7", "8">>[v + 1]

\* [(r,c) for r in range(nrows) for c in range(ncols)], row-major
cellAt(i, ncols) == <<(i - 1) \div ncols, (i - 1) % ncols>>

cells(nrows, ncols) == [i \in 1..(nrows * ncols) |-> cellAt(i, ncols)]

(* ---------------------------------------------------------------------- *)
(* Board.__init__                                                          *)
(* ---------------------------------------------------------------------- *)

\* self.board after the constructor: every cell 0
emptyBoard(nrows, ncols) ==
  [rc \in (0..(nrows - 1)) \X (0..(ncols - 1)) |-> 0]

(* ---------------------------------------------------------------------- *)
(* Board.updateCell and Board.put_mines                                   *)
(* ---------------------------------------------------------------------- *)

updateNeighbors(r, c) ==
  << <<r-1, c-1>>, <<r-1, c>>, <<r-1, c+1>>, <<r, c-1>>,
     <<r, c+1>>, <<r+1, c-1>>, <<r+1, c>>, <<r+1, c+1>> >>

\* updateCell with (r, c-1) missing from the list of neighbors
updateCellNoLeft(b, r, c) ==
  LET neighbors == SelectSeq(updateNeighbors(r, c),
                             LAMBDA n : n \in DOMAIN b /\ n # <<r, c - 1>>)
      mined == SelectSeq(neighbors, LAMBDA n : b[n] = Mine)
  IN  [b EXCEPT ![<<r, c>>] = Len(mined)]

updateCell(b, r, c) ==
  LET neighbors == SelectSeq(updateNeighbors(r, c), LAMBDA n : n \in DOMAIN b)
      mined == SelectSeq(neighbors, LAMBDA n : b[n] = Mine)
  IN  [b EXCEPT ![<<r, c>>] = Len(mined)]

\* scatter without the test `if self.board[(r,c)] != '*'`: a pick on a mine
\* counts as a mine placed
RECURSIVE scatterNoReject(_, _, _)
scatterNoReject(b, picks, todo) ==
  IF todo = 0 THEN [done |-> TRUE, board |-> b]
  ELSE IF picks = <<>> THEN [done |-> FALSE, board |-> b]
  ELSE scatterNoReject([b EXCEPT ![Head(picks)] = Mine], Tail(picks), todo - 1)

\* The scatter loop of put_mines over the stream of random picks: a pick on a
\* mine is rejected and the loop draws again.  done is FALSE when the stream
\* given ends before the requested number of mines is placed.
RECURSIVE scatter(_, _, _)
scatter(b, picks, todo) ==
  IF todo = 0 THEN [done |-> TRUE, board |-> b]
  ELSE IF picks = <<>> THEN [done |-> FALSE, board |-> b]
  ELSE IF b[Head(picks)] # Mine
       THEN scatter([b EXCEPT ![Head(picks)] = Mine], Tail(picks), todo - 1)
       ELSE scatter(b, Tail(picks), todo)

\* for (r,c) in self.board.keys(): if not a mine, updateCell(r, c)
RECURSIVE updateAll(_, _)
updateAll(b, keys) ==
  IF keys = <<>> THEN b
  ELSE LET k == Head(keys)
       IN  updateAll(IF b[k] # Mine THEN updateCell(b, k[1], k[2]) ELSE b,
                     Tail(keys))

\* put_mines clearing startState before it checks its arguments
put_minesFlagFirst(b, ss, nrows, ncols, mines, picks) ==
  IF mines < 1 \/ mines > (nrows * ncols - 1) \/ ~ss
  THEN [exc |-> "ScatterException", done |-> TRUE, board |-> b, startState |-> FALSE]
  ELSE LET s == scatter(b, picks, mines)
       IN  [exc |-> "", done |-> s.done,
            board |-> updateAll(s.board, cells(nrows, ncols)),
            startState |-> FALSE]

put_mines(b, ss, nrows, ncols, mines, picks) ==
  IF mines < 1 \/ mines > (nrows * ncols - 1) \/ ~ss
  THEN [exc |-> "ScatterException", done |-> TRUE, board |-> b, startState |-> ss]
  ELSE LET s == scatter(b, picks, mines)
       IN  [exc |-> "", done |-> s.done,
            board |-> updateAll(s.board, cells(nrows, ncols)),
            startState |-> FALSE]

(* ---------------------------------------------------------------------- *)
(* Board.load_board.  A line is a sequence of one-character strings.       *)
(* ---------------------------------------------------------------------- *)

Whitespace == {" ", "\t", "\n"}

RECURSIVE lstrip(_)
lstrip(s) ==
  IF s # <<>> /\ Head(s) \in Whitespace THEN lstrip(Tail(s)) ELSE s

RECURSIVE rstrip(_)
rstrip(s) ==
  IF s # <<>> /\ s[Len(s)] \in Whitespace
  THEN rstrip(SubSeq(s, 1, Len(s) - 1))
  ELSE s

\* line.strip()
strip(s) == rstrip(lstrip(s))

\* line.split(' '): every single space separates, so two spaces in a row
\* give an empty piece and the empty line gives one empty piece
RECURSIVE splitFrom(_, _, _)
splitFrom(s, piece, pieces) ==
  IF s = <<>> THEN Append(pieces, piece)
  ELSE IF Head(s) = " "
       THEN splitFrom(Tail(s), <<>>, Append(pieces, piece))
       ELSE splitFrom(Tail(s), Append(piece, Head(s)), pieces)

split(s) == splitFrom(s, <<>>, <<>>)

legalValues == <<"0", "1", "2", "3", "4", "5", "6", "7", "8", "*">>

legalStates == <<"H", "S">>

\* int(elements[0]) of a legal value other than '*'
int(ch) == CHOOSE n \in 0..8 : legalValues[n + 1] = ch

\* The inner loop of load_board over the pieces of line r, from piece c on
\* (c counts from 0, as in the code).
RECURSIVE loadPairs(_, _, _, _)
loadPairs(r, pairs, c, st) ==
  IF c >= Len(pairs) \/ st.exc # "" THEN st
  ELSE LET elements == pairs[c + 1]
       IN  IF Len(elements) # 2
           THEN [st EXCEPT !.exc = "BoardFormatException"]
           ELSE IF ~In(elements[1], legalValues) \/ ~In(elements[2], legalStates)
           THEN [st EXCEPT !.exc = "BoardFormatException"]
           ELSE loadPairs(r, pairs, c + 1,
                  [st EXCEPT
                     !.newBoard = (<<r, c>> :> (IF elements[1] = "*" THEN Mine
                                               ELSE int(elements[1]))) @@ @,
                     !.newUncovered = IF elements[2] = "S"
                                      THEN Append(@, <<r, c>>) ELSE @])

\* The outer loop of load_board over the stripped non-blank lines, from line r
RECURSIVE loadLines(_, _, _, _)
loadLines(lines, r, ncols, st) ==
  IF r >= Len(lines) \/ st.exc # "" THEN st
  ELSE LET pairs == split(lines[r + 1])
           st1 == IF Len(pairs) # ncols
                  THEN [st EXCEPT !.dimensionsError = TRUE] ELSE st
       IN  loadLines(lines, r + 1, ncols, loadPairs(r, pairs, 0, st1))

\* load_board without `if dimensionsError: raise DimensionsMismatchException`
load_boardAnyShape(b, unc, nrows, ncols, rawLines) ==
  LET stripped == [i \in 1..Len(rawLines) |-> strip(rawLines[i])]
      lines == SelectSeq(stripped, LAMBDA l : l # <<>>)
  IN  IF lines = <<>>
      THEN [exc |-> "BoardFormatException", board |-> b, uncovered |-> unc]
      ELSE LET st == loadLines(lines, 0, ncols,
                       [exc |-> "", dimensionsError |-> Len(lines) # nrows,
                        newBoard |-> <<>>, newUncovered |-> <<>>])
           IN  IF st.exc # ""
               THEN [exc |-> st.exc, board |-> b, uncovered |-> unc]
               ELSE [exc |-> "", board |-> st.newBoard,
                     uncovered |-> st.newUncovered]

\* load_board raising DimensionsMismatchException as soon as a count is
\* wrong, before it has looked at the pieces
load_boardDimensionsFirst(b, unc, nrows, ncols, rawLines) ==
  LET stripped == [i \in 1..Len(rawLines) |-> strip(rawLines[i])]
      lines == SelectSeq(stripped, LAMBDA l : l # <<>>)
  IN  IF lines = <<>>
      THEN [exc |-> "BoardFormatException", board |-> b, uncovered |-> unc]
      ELSE LET st == loadLines(lines, 0, ncols,
                       [exc |-> "", dimensionsError |-> Len(lines) # nrows,
                        newBoard |-> <<>>, newUncovered |-> <<>>])
           IN  IF st.dimensionsError
               THEN [exc |-> "DimensionsMismatchException",
                     board |-> b, uncovered |-> unc]
               ELSE IF st.exc # ""
               THEN [exc |-> st.exc, board |-> b, uncovered |-> unc]
               ELSE [exc |-> "", board |-> st.newBoard,
                     uncovered |-> st.newUncovered]

load_board(b, unc, nrows, ncols, rawLines) ==
  LET stripped == [i \in 1..Len(rawLines) |-> strip(rawLines[i])]
      lines == SelectSeq(stripped, LAMBDA l : l # <<>>)
  IN  IF lines = <<>>
      THEN [exc |-> "BoardFormatException", board |-> b, uncovered |-> unc]
      ELSE LET st == loadLines(lines, 0, ncols,
                       [exc |-> "", dimensionsError |-> Len(lines) # nrows,
                        newBoard |-> <<>>, newUncovered |-> <<>>])
           IN  IF st.exc # ""
               THEN [exc |-> st.exc, board |-> b, uncovered |-> unc]
               ELSE IF st.dimensionsError
               THEN [exc |-> "DimensionsMismatchException",
                     board |-> b, uncovered |-> unc]
               ELSE [exc |-> "", board |-> st.newBoard,
                     uncovered |-> st.newUncovered]

(* ---------------------------------------------------------------------- *)
(* Board.get_value, Board.uncover, Board.ripple_sequence                   *)
(* ---------------------------------------------------------------------- *)

\* Called on cells of the board only; the callers below check the indices
\* where the code's get_value would raise IllegalIndicesException.
get_value(b, row, column) == str(b[<<row, column>>])

\* The cell's state letter, or IllegalIndicesException off the board
is_hidden(b, unc, row, column) ==
  IF <<row, column>> \notin DOMAIN b
  THEN [exc |-> "IllegalIndicesException", retval |-> ""]
  ELSE [exc |-> "", retval |-> IF In(<<row, column>>, unc) THEN "S" ELSE "H"]

\* uncover with `self.uncovered = [(row, column)]` for the append
uncoverReplace(b, unc, row, column) ==
  IF <<row, column>> \notin DOMAIN b
  THEN [exc |-> "IllegalIndicesException", uncovered |-> unc]
  ELSE IF In(<<row, column>>, unc)
  THEN [exc |-> "IllegalMoveException", uncovered |-> unc]
  ELSE [exc |-> "", uncovered |-> << <<row, column>> >>]

\* uncover appending the cell before it looks whether it is uncovered
uncoverAppendFirst(b, unc, row, column) ==
  IF <<row, column>> \notin DOMAIN b
  THEN [exc |-> "IllegalIndicesException", uncovered |-> unc]
  ELSE IF In(<<row, column>>, unc)
  THEN [exc |-> "IllegalMoveException", uncovered |-> Append(unc, <<row, column>>)]
  ELSE [exc |-> "", uncovered |-> Append(unc, <<row, column>>)]

\* uncover without `if (row, column) in self.uncovered: raise`
uncoverNoMoveCheck(b, unc, row, column) ==
  IF <<row, column>> \notin DOMAIN b
  THEN [exc |-> "IllegalIndicesException", uncovered |-> unc]
  ELSE [exc |-> "", uncovered |-> Append(unc, <<row, column>>)]

uncover(b, unc, row, column) ==
  IF <<row, column>> \notin DOMAIN b
  THEN [exc |-> "IllegalIndicesException", uncovered |-> unc]
  ELSE IF In(<<row, column>>, unc)
  THEN [exc |-> "IllegalMoveException", uncovered |-> unc]
  ELSE [exc |-> "", uncovered |-> Append(unc, <<row, column>>)]

\* rippleNeighbors in the row-by-row order of updateCell
rippleNeighborsByRow(r, c) ==
  << <<r-1, c-1>>, <<r-1, c>>, <<r-1, c+1>>, <<r, c-1>>,
     <<r, c+1>>, <<r+1, c-1>>, <<r+1, c>>, <<r+1, c+1>> >>

\* up, up-right, right, down-right, down, down-left, left, up-left
rippleNeighbors(r, c) ==
  << <<r-1, c>>, <<r-1, c+1>>, <<r, c+1>>, <<r+1, c+1>>,
     <<r+1, c>>, <<r+1, c-1>>, <<r, c-1>>, <<r-1, c-1>> >>

\* rippleCondition without `(r,c) not in self.uncovered`
rippleConditionUncovered(b, unc, row, column, n, sequence) ==
  /\ n \in DOMAIN b /\ ~In(n, sequence)
  /\ n # <<row, column>>

\* condition1 and condition2 of ripple_sequence
rippleCondition(b, unc, row, column, n, sequence) ==
  /\ n \in DOMAIN b /\ ~In(n, sequence)
  /\ n # <<row, column>> /\ ~In(n, unc)

\* for (r,c) in neighbors: append to sequence and queue when the condition holds
RECURSIVE rippleScan(_, _, _, _, _, _)
rippleScan(b, unc, row, column, neighbors, st) ==
  IF neighbors = <<>> THEN st
  ELSE LET n == Head(neighbors)
       IN  rippleScan(b, unc, row, column, Tail(neighbors),
             IF rippleCondition(b, unc, row, column, n, st.sequence)
             THEN [sequence |-> Append(st.sequence, n),
                   queue |-> Append(st.queue, n)]
             ELSE st)

\* rippleLoop without `if self.get_value(r, c) == '0'`: every popped cell
\* expands
RECURSIVE rippleLoopAll(_, _, _, _, _)
rippleLoopAll(b, unc, row, column, st) ==
  IF st.queue = <<>> THEN st.sequence
  ELSE LET rc == Head(st.queue)
           popped == [st EXCEPT !.queue = Tail(@)]
       IN  rippleLoopAll(b, unc, row, column,
             rippleScan(b, unc, row, column,
                        rippleNeighbors(rc[1], rc[2]), popped))

\* rippleLoop returning after the first pass of the while loop: only the
\* origin expands
rippleLoopOnce(b, unc, row, column, st) ==
  IF st.queue = <<>> THEN st.sequence
  ELSE LET rc == Head(st.queue)
           popped == [st EXCEPT !.queue = Tail(@)]
       IN  IF get_value(b, rc[1], rc[2]) = "0"
           THEN rippleScan(b, unc, row, column,
                           rippleNeighbors(rc[1], rc[2]), popped).sequence
           ELSE popped.sequence

\* while queue != []: the inner for pops exactly the cells that were queued
\* when it started, one per iteration, so the two loops together pop the
\* queue from its head until it is empty.
RECURSIVE rippleLoop(_, _, _, _, _)
rippleLoop(b, unc, row, column, st) ==
  IF st.queue = <<>> THEN st.sequence
  ELSE LET rc == Head(st.queue)
           popped == [st EXCEPT !.queue = Tail(@)]
       IN  rippleLoop(b, unc, row, column,
             IF get_value(b, rc[1], rc[2]) = "0"
             THEN rippleScan(b, unc, row, column,
                             rippleNeighbors(rc[1], rc[2]), popped)
             ELSE popped)

ripple_sequence(b, unc, row, column) ==
  IF <<row, column>> \notin DOMAIN b
  THEN [exc |-> "IllegalIndicesException", sequence |-> <<>>]
  ELSE IF get_value(b, row, column) # "0"
  THEN [exc |-> "", sequence |-> <<>>]
  ELSE [exc |-> "",
        sequence |-> rippleLoop(b, unc, row, column,
                       [sequence |-> <<>>, queue |-> << <<row, column>> >>])]

(* ---------------------------------------------------------------------- *)
(* Game.get_status and Game.make_move                                      *)
(* ---------------------------------------------------------------------- *)

\* statusScan with Win cleared by every hidden cell, mine or not
RECURSIVE statusScanAllShown(_, _, _, _)
statusScanAllShown(b, unc, todo, win) ==
  IF todo = <<>> THEN (IF win THEN Win ELSE InProgress)
  ELSE LET k == Head(todo)
           value == get_value(b, k[1], k[2])
       IN  IF In(k, unc) /\ value = "*" THEN Lose
           ELSE statusScanAllShown(b, unc, Tail(todo),
                                   IF ~In(k, unc) THEN FALSE ELSE win)

\* for (r,c) in cells: Lose at the first uncovered mine, Win cleared by a
\* hidden cell that is no mine
RECURSIVE statusScan(_, _, _, _)
statusScan(b, unc, todo, win) ==
  IF todo = <<>> THEN (IF win THEN Win ELSE InProgress)
  ELSE LET k == Head(todo)
           value == get_value(b, k[1], k[2])
       IN  IF In(k, unc) /\ value = "*" THEN Lose
           ELSE statusScan(b, unc, Tail(todo),
                           IF ~In(k, unc) /\ value # "*" THEN FALSE ELSE win)

\* get_status deciding Win before it looks for an uncovered mine
get_statusWinFirst(b, unc, nrows, ncols) ==
  IF unc = <<>> THEN NotStarted
  ELSE IF \A i \in 1..(nrows * ncols) :
            In(cellAt(i, ncols), unc) \/ b[cellAt(i, ncols)] = Mine
  THEN Win
  ELSE statusScan(b, unc, cells(nrows, ncols), TRUE)

get_status(b, unc, nrows, ncols) ==
  IF unc = <<>> THEN NotStarted
  ELSE statusScan(b, unc, cells(nrows, ncols), TRUE)

\* uncoverAll returning from inside the loop, after its first cell
uncoverAllFirst(b, unc, sequence) ==
  IF sequence = <<>> THEN [exc |-> "", uncovered |-> unc]
  ELSE uncover(b, unc, Head(sequence)[1], Head(sequence)[2])

\* for (r,c) in sequence: self.board.uncover(r,c); an exception ends the loop
\* with the cells uncovered so far left uncovered
RECURSIVE uncoverAll(_, _, _)
uncoverAll(b, unc, sequence) ==
  IF sequence = <<>> THEN [exc |-> "", uncovered |-> unc]
  ELSE LET u == uncover(b, unc, Head(sequence)[1], Head(sequence)[2])
       IN  IF u.exc # "" THEN u
           ELSE uncoverAll(b, u.uncovered, Tail(sequence))

\* make_move returning after step 1: the cell is uncovered, nothing ripples
make_moveNoRipple(b, unc, row, column) ==
  LET first == uncover(b, unc, row, column)
  IN  IF first.exc # ""
      THEN [exc |-> first.exc, uncovered |-> first.uncovered, value |-> "",
            inRipple |-> FALSE]
      ELSE [exc |-> "", uncovered |-> first.uncovered,
            value |-> get_value(b, row, column), inRipple |-> FALSE]

\* inRipple tells an exception of the ripple loop from one of the first uncover
make_move(b, unc, row, column) ==
  LET first == uncover(b, unc, row, column)
  IN  IF first.exc # ""
      THEN [exc |-> first.exc, uncovered |-> first.uncovered, value |-> "",
            inRipple |-> FALSE]
      ELSE LET value == get_value(b, row, column)
           IN  IF value # "*"
               THEN LET sequence == ripple_sequence(b, first.uncovered, row, column).sequence
                        all == uncoverAll(b, first.uncovered, sequence)
                    IN  [exc |-> all.exc, uncovered |-> all.uncovered,
                         value |-> IF all.exc = "" THEN value ELSE "",
                         inRipple |-> all.exc # ""]
               ELSE [exc |-> "", uncovered |-> first.uncovered,
                     value |-> value, inRipple |-> FALSE]

(* ---------------------------------------------------------------------- *)
(* Board.save_board: the row lines written after the two header lines      *)
(* ---------------------------------------------------------------------- *)

\* saveLine without the ' ' after each cell
RECURSIVE saveLineNoSpace(_, _, _, _, _)
saveLineNoSpace(b, unc, r, c, ncols) ==
  IF c >= ncols THEN <<"\n">>
  ELSE <<str(b[<<r, c>>]), IF In(<<r, c>>, unc) THEN "S" ELSE "H">>
       \o saveLineNoSpace(b, unc, r, c + 1, ncols)

RECURSIVE saveLine(_, _, _, _, _)
saveLine(b, unc, r, c, ncols) ==
  IF c >= ncols THEN <<"\n">>
  ELSE <<str(b[<<r, c>>]), IF In(<<r, c>>, unc) THEN "S" ELSE "H", " ">>
       \o saveLine(b, unc, r, c + 1, ncols)

save_board(b, unc, nrows, ncols) ==
  [i \in 1..nrows |-> saveLine(b, unc, i - 1, 0, ncols)]

(* ---------------------------------------------------------------------- *)
(* The state: one Board wrapped in one Game, and the call in progress      *)
(* ---------------------------------------------------------------------- *)

Cells == DOMAIN board

\* What a call hands back to its caller.  op is "idle" between calls.
Outcome(op, row, column, mines, lines, exc, value, sequence, status, inRipple) ==
  [op |-> op, row |-> row, column |-> column, mines |-> mines, lines |-> lines,
   exc |-> exc, value |-> value, sequence |-> sequence, status |-> status,
   inRipple |-> inRipple]

Idle == Outcome("idle", 0, 0, 0, <<>>, "", "", <<>>, NotStarted, FALSE)

\* pre: the board as the call in progress found it; loaded: some load_board
\* call has succeeded on this board (history variables).  pc: where the
\* program is ("calls" when the methods are called one by one); placed: the
\* mines the scatter loop in progress has placed (i of `for i in range(mines)`)
Snapshot == [board |-> board, uncovered |-> uncovered, startState |-> startState]

\* Board(rows, columns) with legal dimensions, within the bound
Init ==
  /\ rows \in MinRows..MaxCells
  /\ columns \in MinColumns..MaxCells
  /\ rows * columns <= MaxCells
  /\ board = emptyBoard(rows, columns)
  /\ uncovered = <<>>
  /\ startState = TRUE
  /\ ret = Idle
  /\ pre = [board |-> board, uncovered |-> uncovered, startState |-> startState]
  /\ loaded = FALSE
  /\ moves = 0
  /\ pc = "calls"
  /\ placed = 0

(* ---------------------------------------------------------------------- *)
(* The arguments the callers pass                                          *)
(* ---------------------------------------------------------------------- *)

\* Every cell of the board, a row above it and a column to its right
Coordinates == Cells \cup {<<-1, 0>>, <<0, columns>>}

\* Where clients look a cell up: the first and the last cell of the board
\* and the two coordinates off it
Probes ==
  {<<0, 0>>, <<rows - 1, columns - 1>>, <<-1, 0>>, <<0, columns>>}

\* The cells of a set in row-major order
listOf(S) == SelectSeq(cells(rows, columns), LAMBDA k : k \in S)

\* Streams of random picks for put_mines(mines): `mines` different cells,
\* alone or after a pick of the corner cell.  The corner pick makes a later
\* pick a repeat, and falls on a mine on most loaded boards; the loop rejects
\* both.  Picks left over when the loop ends are never drawn, and a call
\* that raises draws none.
PickStreams(mines) ==
  IF mines < 1 \/ mines > Cardinality(Cells) \/ ~startState THEN {<<>>}
  ELSE {first \o listOf(S) :
          first \in {<<>>, << <<0, 0>> >>},
          S \in {T \in SUBSET Cells : Cardinality(T) = mines}}

\* Boards to write into an input file: all zero, all mines, one mine in the
\* corner with the right counts around it, one mine in the corner with zeros
\* around it (counts that a loaded file need not have right)
zeroBoard == emptyBoard(rows, columns)

mineBoard == [k \in Cells |-> Mine]

lonelyBoard == [zeroBoard EXCEPT ![<<0, 0>>] = Mine]

cornerBoard == updateAll(lonelyBoard, cells(rows, columns))

allCells == cells(rows, columns)

GoodFiles ==
  { save_board(zeroBoard, <<>>, rows, columns),
    save_board(mineBoard, <<>>, rows, columns),
    save_board(cornerBoard, <<>>, rows, columns),
    save_board(cornerBoard, allCells, rows, columns),
    save_board(lonelyBoard, <<>>, rows, columns),
    save_board(lonelyBoard, <<allCells[Len(allCells)]>>, rows, columns) }

\* "0H 1H ..." written by hand: leading blanks, blank lines in between, no
\* trailing space
handLine(b, unc, r) ==
  <<"\t", " ">> \o strip(saveLine(b, unc, r, 0, columns))

handFile(b, unc) ==
  << <<" ", "\n">> >> \o
  [i \in 1..(2 * rows) |->
     IF i % 2 = 1 THEN handLine(b, unc, (i - 1) \div 2) ELSE <<"\n">>]

\* Files load_board must refuse: nothing but blanks, a row too many, an
\* illegal value in a file with a row too many; the first row missing (no row
\* left when the board has one); in the first row a piece too many, a piece
\* of three characters too many, a state letter that is none, two spaces in
\* a row
BadFiles ==
  LET good == save_board(cornerBoard, <<>>, rows, columns)
      rest == SubSeq(good[1], 4, Len(good[1]))
      firstRow(line) == [good EXCEPT ![1] = line]
  IN  { << <<" ", "\n">>, <<"\t">> >>,
        Append(good, good[1]),
        Append(good, <<"9", "H", "\n">>),
        Tail(good),
        firstRow(<<"0", "H", " ">> \o good[1]),
        firstRow(<<"0", "H", "H", " ">> \o good[1]),
        firstRow(<<"*", "X", " ">> \o rest),
        firstRow(<<"*", "H", " ", " ">> \o rest) }

Files == GoodFiles \cup {handFile(cornerBoard, <<>>)} \cup BadFiles

(* ---------------------------------------------------------------------- *)
(* The calls                                                               *)
(* ---------------------------------------------------------------------- *)

\* A call whose scatter loop cannot place the mines asked for (a loaded board
\* with too few cells free of mines) draws picks for ever and never returns:
\* no stream makes it done.
CallPutMines ==
  /\ ret = Idle
  /\ moves < MaxMoves
  /\ \E mines \in 0..(rows * columns) : \E picks \in PickStreams(mines) :
       LET r == put_mines(board, startState, rows, columns, mines, picks)
       IN  /\ r.done
           /\ board' = r.board
           /\ startState' = r.startState
           /\ ret' = Outcome("put_mines", 0, 0, mines, <<>>, r.exc, "", <<>>,
                             NotStarted, FALSE)
  /\ pre' = Snapshot
  /\ UNCHANGED <<rows, columns, uncovered, loaded, moves, pc, placed>>

CallLoadBoard ==
  /\ ret = Idle
  /\ moves < MaxMoves
  /\ \E lines \in Files :
       LET r == load_board(board, uncovered, rows, columns, lines)
       IN  /\ board' = r.board
           /\ uncovered' = r.uncovered
           /\ loaded' = (loaded \/ r.exc = "")
           /\ ret' = Outcome("load_board", 0, 0, 0, lines, r.exc, "", <<>>,
                             NotStarted, FALSE)
  /\ pre' = Snapshot
  /\ UNCHANGED <<rows, columns, startState, moves, pc, placed>>

CallUncover ==
  /\ ret = Idle
  /\ moves < MaxMoves
  /\ \E rc \in Coordinates :
       LET r == uncover(board, uncovered, rc[1], rc[2])
       IN  /\ uncovered' = r.uncovered
           /\ moves' = IF r.exc = "" THEN moves + 1 ELSE moves
           /\ ret' = Outcome("uncover", rc[1], rc[2], 0, <<>>, r.exc, "", <<>>,
                             NotStarted, FALSE)
  /\ pre' = Snapshot
  /\ UNCHANGED <<rows, columns, board, startState, loaded, pc, placed>>

CallMakeMove ==
  /\ ret = Idle
  /\ moves < MaxMoves
  /\ \E rc \in Coordinates :
       LET r == make_move(board, uncovered, rc[1], rc[2])
       IN  /\ uncovered' = r.uncovered
           /\ moves' = IF r.exc = "" THEN moves + 1 ELSE moves
           /\ ret' = Outcome("make_move", rc[1], rc[2], 0, <<>>, r.exc, r.value,
                             <<>>, NotStarted, r.inRipple)
  /\ pre' = Snapshot
  /\ UNCHANGED <<rows, columns, board, startState, loaded, pc, placed>>

CallRippleSequence ==
  /\ ret = Idle
  /\ \E rc \in Coordinates :
       LET r == ripple_sequence(board, uncovered, rc[1], rc[2])
       IN  ret' = Outcome("ripple_sequence", rc[1], rc[2], 0, <<>>, r.exc, "",
                          r.sequence, NotStarted, FALSE)
  /\ pre' = Snapshot
  /\ UNCHANGED <<rows, columns, board, uncovered, startState, loaded, moves, pc, placed>>

\* Board.get_value called by a client: the check of the indices, then
\* get_value on a cell of the board
CallGetValue ==
  /\ ret = Idle
  /\ \E rc \in Probes :
       ret' = IF rc \notin DOMAIN board
              THEN Outcome("get_value", rc[1], rc[2], 0, <<>>,
                           "IllegalIndicesException", "", <<>>, NotStarted, FALSE)
              ELSE Outcome("get_value", rc[1], rc[2], 0, <<>>, "",
                           get_value(board, rc[1], rc[2]), <<>>, NotStarted, FALSE)
  /\ pre' = Snapshot
  /\ UNCHANGED <<rows, columns, board, uncovered, startState, loaded, moves, pc, placed>>

CallIsHidden ==
  /\ ret = Idle
  /\ \E rc \in Probes :
       LET r == is_hidden(board, uncovered, rc[1], rc[2])
       IN  ret' = Outcome("is_hidden", rc[1], rc[2], 0, <<>>, r.exc, r.retval,
                          <<>>, NotStarted, FALSE)
  /\ pre' = Snapshot
  /\ UNCHANGED <<rows, columns, board, uncovered, startState, loaded, moves, pc, placed>>

CallGetStatus ==
  /\ ret = Idle
  /\ ret' = Outcome("get_status", 0, 0, 0, <<>>, "", "", <<>>,
                    get_status(board, uncovered, rows, columns), FALSE)
  /\ pre' = Snapshot
  /\ UNCHANGED <<rows, columns, board, uncovered, startState, loaded, moves, pc, placed>>

\* The caller takes the outcome; the next call can be made
Return ==
  /\ pc = "calls"
  /\ ret # Idle
  /\ ret' = Idle
  /\ pre' = Snapshot
  /\ UNCHANGED <<rows, columns, board, uncovered, startState, loaded, moves, pc, placed>>

Next ==
  \/ CallPutMines
  \/ CallLoadBoard
  \/ CallUncover
  \/ CallMakeMove
  \/ CallRippleSequence
  \/ CallGetStatus
  \/ CallGetValue
  \/ CallIsHidden
  \/ Return

Spec == Init /\ [][Next]_vars

(* ---------------------------------------------------------------------- *)
(* main and Game.run: a session at the terminal                           *)
(* ---------------------------------------------------------------------- *)

\* Board.__init__: rows <= 20 and columns <= 50
MaxRows == 20

MaxColumns == 50

\* The check of Board.__init__ that raises SizeOutOfBoundException
sizeOutOfBound(nrows, ncols) ==
  nrows < 1 \/ nrows > MaxRows \/ ncols < 2 \/ ncols > MaxColumns

Digits == <<"0", "1", "2", "3", "4", "5", "6", "7", "8", "9">>

RECURSIVE digitsValue(_, _)
digitsValue(s, acc) ==
  IF s = <<>> THEN acc
  ELSE digitsValue(Tail(s),
                   10 * acc + (CHOOSE d \in 0..9 : Digits[d + 1] = Head(s)))

\* int(s) of a string: blanks around it are dropped, a sign may come first,
\* the rest is digits; anything else is a ValueError (ok is FALSE)
parseInt(s) ==
  LET t == strip(s)
      signed == t # <<>> /\ Head(t) \in {"-", "+"}
      body == IF signed THEN Tail(t) ELSE t
  IN  IF body = <<>> \/ \E i \in 1..Len(body) : ~In(body[i], Digits)
      THEN [ok |-> FALSE, value |-> 0]
      ELSE [ok |-> TRUE,
            value |-> IF Head(t) = "-" THEN 0 - digitsValue(body, 0)
                      ELSE digitsValue(body, 0)]

\* move.split(): the pieces between runs of blanks, none of them empty
RECURSIVE splitWords(_, _, _)
splitWords(s, piece, pieces) ==
  IF s = <<>> THEN (IF piece = <<>> THEN pieces ELSE Append(pieces, piece))
  ELSE IF Head(s) \in Whitespace
       THEN splitWords(Tail(s), <<>>,
                       IF piece = <<>> THEN pieces ELSE Append(pieces, piece))
       ELSE splitWords(Tail(s), Append(piece, Head(s)), pieces)

\* What main leaves behind: where the program goes on (pc), the exception
\* main raises, the line it prints, and the board it has built
Landing(to, exc, printed, nrows, ncols, b, unc, ss, ld) ==
  [pc |-> to, exc |-> exc, printed |-> printed, rows |-> nrows,
   columns |-> ncols, board |-> b, uncovered |-> unc, startState |-> ss,
   loaded |-> ld]

NoBoard == emptyBoard(0, 0)

\* main with an input file: any exception is caught and reported
mainInput(source) ==
  LET line(i) == IF Len(source) >= i THEN source[i] ELSE <<>>
      nrows == parseInt(line(1))
      ncols == parseInt(line(2))
      lines == SubSeq(source, 3, Len(source))
      bad == Landing("returned", "", "Badly-formatted input file",
                     0, 0, NoBoard, <<>>, TRUE, FALSE)
  IN  IF ~nrows.ok \/ ~ncols.ok THEN bad
      ELSE IF sizeOutOfBound(nrows.value, ncols.value) THEN bad
      ELSE LET fresh == emptyBoard(nrows.value, ncols.value)
               r == load_board(fresh, <<>>, nrows.value, ncols.value, lines)
           IN  IF r.exc # "" THEN bad
               ELSE Landing("run", "", "", nrows.value, ncols.value,
                            r.board, r.uncovered, TRUE, TRUE)

\* main without an input file: Board(rows, columns) and put_mines(mines) are
\* called outside any try, so their exceptions leave main
mainArguments(nrows, ncols, mines, picks) ==
  IF sizeOutOfBound(nrows, ncols)
  THEN Landing("raised", "SizeOutOfBoundException", "",
               0, 0, NoBoard, <<>>, TRUE, FALSE)
  ELSE LET fresh == emptyBoard(nrows, ncols)
           r == put_mines(fresh, TRUE, nrows, ncols, mines, picks)
       IN  IF r.exc # ""
           THEN Landing("raised", r.exc, "", nrows, ncols, fresh, <<>>, TRUE, FALSE)
           ELSE Landing("run", "", "", nrows, ncols, r.board, <<>>,
                        r.startState, FALSE)

\* The program before main has run: no board yet
SessionInit ==
  /\ pc = "main"
  /\ rows = 0
  /\ columns = 0
  /\ board = NoBoard
  /\ uncovered = <<>>
  /\ startState = TRUE
  /\ ret = Idle
  /\ pre = [board |-> board, uncovered |-> uncovered, startState |-> startState]
  /\ loaded = FALSE
  /\ moves = 0
  /\ placed = 0

\* Command lines without -i: every legal size within the bounds, and sizes
\* one below and one above the legal range
ArgumentRows == (0..MaxSessionCells) \cup {MaxRows + 1}

ArgumentColumns == (1..MaxSessionColumns) \cup {MaxColumns + 1}

\* The picks put_mines draws for a command line: `mines` different cells
ArgumentPicks(nrows, ncols, mines) ==
  IF sizeOutOfBound(nrows, ncols) \/ mines < 1 \/ mines > nrows * ncols - 1
  THEN {<<>>}
  ELSE {SelectSeq(cells(nrows, ncols), LAMBDA k : k \in S) :
          S \in {T \in SUBSET ((0..(nrows - 1)) \X (0..(ncols - 1))) :
                   Cardinality(T) = mines}}

\* Input files: the two header lines, then the rows of a board with one mine
\* in the corner, with nothing uncovered, every cell uncovered, or every cell
\* but the mine uncovered
headerLines(nrows, ncols) == << <<str(nrows), "\n">>, <<" ", str(ncols), "\n">> >>

InputBoards(nrows, ncols) ==
  LET b == updateAll([emptyBoard(nrows, ncols) EXCEPT ![<<0, 0>>] = Mine],
                     cells(nrows, ncols))
  IN  { save_board(b, <<>>, nrows, ncols),
        save_board(b, cells(nrows, ncols), nrows, ncols),
        save_board(b, Tail(cells(nrows, ncols)), nrows, ncols) }

\* and files main must refuse: empty, a header that is no number, a header
\* of a size out of range, rows that do not fit the header
InputFiles ==
  UNION { {headerLines(size[1], size[2]) \o f : f \in InputBoards(size[1], size[2])} :
            size \in {sz \in (1..MaxSessionCells) \X (2..MaxSessionColumns) :
                       sz[1] * sz[2] <= MaxSessionCells} }
  \cup { <<>>,
          << <<"x", "\n">>, <<"2", "\n">>, <<"0", "H", " ", "0", "H", "\n">> >>,
          headerLines(0, 2) \o << <<"0", "H", " ", "0", "H", "\n">> >>,
          headerLines(1, 2) \o << <<"0", "H", "\n">> >> }

\* main with -i
MainInput ==
  /\ pc = "main"
  /\ \E source \in InputFiles :
       LET m == mainInput(source)
       IN  /\ pc' = m.pc
           /\ rows' = m.rows
           /\ columns' = m.columns
           /\ board' = m.board
           /\ uncovered' = m.uncovered
           /\ startState' = m.startState
           /\ loaded' = m.loaded
           /\ ret' = Outcome("main -i", 0, 0, 0, source, m.exc, m.printed,
                             <<>>, NotStarted, FALSE)
  /\ pre' = Snapshot
  /\ UNCHANGED <<moves, placed>>

\* main with -r, -c, -m and no -i
MainArguments ==
  /\ pc = "main"
  /\ \E nrows \in ArgumentRows : \E ncols \in ArgumentColumns :
       /\ sizeOutOfBound(nrows, ncols) \/ nrows * ncols <= MaxSessionCells
       /\ \E mines \in 0..MaxSessionCells :
          \E picks \in ArgumentPicks(nrows, ncols, mines) :
            LET m == mainArguments(nrows, ncols, mines, picks)
            IN  /\ pc' = m.pc
                /\ rows' = m.rows
                /\ columns' = m.columns
                /\ board' = m.board
                /\ uncovered' = m.uncovered
                /\ startState' = m.startState
                /\ loaded' = m.loaded
                /\ ret' = Outcome("main", nrows, ncols, mines, <<>>, m.exc,
                                  m.printed, <<>>, NotStarted, FALSE)
  /\ pre' = Snapshot
  /\ UNCHANGED <<moves, placed>>

\* The lines a user types at "Enter row then column": every cell, with blanks
\* around the numbers or without; a row above the board; one number only; a
\* word that is no number
MoveLines ==
  {<<str(k[1]), " ", str(k[2])>> : k \in Cells}
  \cup { <<" ", "0", "\t", " ", "1", " ">>,
          <<"-", "1", " ", "0">>,
          <<"0">>,
          <<"0", " ", "x">> }

\* `selection == '3' and self.get_status() not in [Win, Lose]` with every
\* status letting the move through
moveOfferedAlways(selection, status) == selection = "3"

\* `selection == '3' and self.get_status() not in [Win, Lose]`
moveOffered(selection, status) ==
  selection = "3" /\ status \notin {Win, Lose}

\* One pass of the loop of run: printMenu shows the status, the user types a
\* selection, and the branch taken prints its line.  ret keeps the lines
\* typed, the status shown and the line printed.
Pass(typed, row, column, printed) ==
  Outcome("run", row, column, 0, typed, "", printed, <<>>,
          get_status(board, uncovered, rows, columns), FALSE)

\* selection '1': save_board writes the file or fails on it
RunSave ==
  /\ pc = "run"
  /\ \E printed \in {"Save operation done", "Save operation failed"} :
       ret' = Pass(<< <<"1">> >>, 0, 0, printed)
  /\ pre' = Snapshot
  /\ UNCHANGED <<rows, columns, board, uncovered, startState, loaded, moves,
                 pc, placed>>

\* selection '2'
RunExit ==
  /\ pc = "run"
  /\ ret' = Pass(<< <<"2">> >>, 0, 0, "Goodbye :)")
  /\ pc' = "returned"
  /\ pre' = Snapshot
  /\ UNCHANGED <<rows, columns, board, uncovered, startState, loaded, moves,
                 placed>>

\* selection '3' while the game is on: the move typed is split and parsed and
\* make_move is called; every exception prints 'Illegal move values'
RunMove ==
  /\ pc = "run"
  /\ moveOffered("3", get_status(board, uncovered, rows, columns))
  /\ \E move \in MoveLines :
       LET coordinates == splitWords(move, <<>>, <<>>)
           r == IF Len(coordinates) = 2 THEN parseInt(coordinates[1])
                ELSE [ok |-> FALSE, value |-> 0]
           c == IF Len(coordinates) = 2 THEN parseInt(coordinates[2])
                ELSE [ok |-> FALSE, value |-> 0]
       IN  IF Len(coordinates) # 2 \/ ~r.ok \/ ~c.ok
           THEN /\ ret' = Pass(<< <<"3">>, move >>, 0, 0, "Illegal move values")
                /\ uncovered' = uncovered
           ELSE LET m == make_move(board, uncovered, r.value, c.value)
                IN  /\ ret' = Pass(<< <<"3">>, move >>, r.value, c.value,
                                   IF m.exc # "" THEN "Illegal move values" ELSE "")
                    /\ uncovered' = m.uncovered
  /\ pre' = Snapshot
  /\ UNCHANGED <<rows, columns, board, startState, loaded, moves, pc, placed>>

\* any other selection, and '3' when the game is over
RunIllegalChoice ==
  /\ pc = "run"
  /\ \E selection \in {"3", "4"} :
       /\ ~moveOffered(selection, get_status(board, uncovered, rows, columns))
       /\ ret' = Pass(<< <<selection>> >>, 0, 0, "Illegal choice")
  /\ pre' = Snapshot
  /\ UNCHANGED <<rows, columns, board, uncovered, startState, loaded, moves,
                 pc, placed>>

SessionNext ==
  \/ MainInput
  \/ MainArguments
  \/ RunSave
  \/ RunExit
  \/ RunMove
  \/ RunIllegalChoice

Session == SessionInit /\ [][SessionNext]_vars

(* ---------------------------------------------------------------------- *)
(* put_mines one random pick at a time                                     *)
(* ---------------------------------------------------------------------- *)

\* The check of put_mines: it raises, or the scatter loop starts.  While the
\* loop runs, ret keeps the number of mines asked for and the last pick.
PutMinesEnter ==
  /\ pc = "calls"
  /\ ret = Idle
  /\ \E mines \in 0..(rows * columns) :
       IF mines < 1 \/ mines > (rows * columns - 1) \/ ~startState
       THEN /\ ret' = Outcome("put_mines", 0, 0, mines, <<>>, "ScatterException",
                              "", <<>>, NotStarted, FALSE)
            /\ pc' = pc
       ELSE /\ ret' = Outcome("put_mines", 0, 0, mines, <<>>, "", "", <<>>,
                              NotStarted, FALSE)
            /\ pc' = "scatter"
  /\ placed' = 0
  /\ pre' = Snapshot
  /\ UNCHANGED <<rows, columns, board, uncovered, startState, loaded, moves>>

\* One pass of `while not scattered`: random.randint gives the cell k; a cell
\* that holds no mine gets one and the for loop goes on to the next mine
ScatterPick(k) ==
  /\ pc = "scatter"
  /\ placed < ret.mines
  /\ k \in Cells
  /\ ret' = [ret EXCEPT !.row = k[1], !.column = k[2]]
  /\ IF board[k] # Mine
     THEN /\ board' = [board EXCEPT ![k] = Mine]
          /\ placed' = placed + 1
     ELSE UNCHANGED <<board, placed>>
  /\ UNCHANGED <<rows, columns, uncovered, startState, pre, loaded, moves, pc>>

\* The for loop is over: the counts are updated, startState is cleared and
\* put_mines returns
ScatterFinish ==
  /\ pc = "scatter"
  /\ placed = ret.mines
  /\ board' = updateAll(board, cells(rows, columns))
  /\ startState' = FALSE
  /\ pc' = "calls"
  /\ ret' = [ret EXCEPT !.row = 0, !.column = 0]
  /\ UNCHANGED <<rows, columns, uncovered, pre, loaded, moves, placed>>

\* Every coordinate a board within the bound can have
Picks == (0..(MaxCells - 1)) \X (0..(MaxCells - 1))

ScatterNext ==
  \/ CallLoadBoard
  \/ PutMinesEnter
  \/ \E k \in Picks : ScatterPick(k)
  \/ ScatterFinish
  \/ Return

\* The random source draws every cell again and again, and the program runs
\* on when the loop is over
Scatter ==
  /\ Init
  /\ [][ScatterNext]_vars
  /\ \A k \in Picks : WF_vars(ScatterPick(k))
  /\ WF_vars(ScatterFinish)

(* ---------------------------------------------------------------------- *)
(* Vocabulary of the properties                                            *)
(* ---------------------------------------------------------------------- *)

MinesOf(b) == {k \in DOMAIN b : b[k] = Mine}

Abs(x) == IF x < 0 THEN -x ELSE x

\* The in-bounds 8-neighbours of a cell
Around(b, k) ==
  {n \in DOMAIN b : n # k /\ Abs(n[1] - k[1]) <= 1 /\ Abs(n[2] - k[2]) <= 1}

NoRepeat(s) == \A i, j \in 1..Len(s) : s[i] = s[j] => i = j

Returned(op) == ret.op = op /\ ret.exc = ""

Target == <<ret.row, ret.column>>

\* 0 <= row < rows and 0 <= column < columns
InGrid(k) == k[1] >= 0 /\ k[1] < rows /\ k[2] >= 0 /\ k[2] < columns

\* A board nobody has touched since Board(rows, columns)
WasFresh == ~loaded /\ pre.startState /\ pre.uncovered = <<>>

(* ---------------------------------------------------------------------- *)
(* Properties                                                              *)
(* ---------------------------------------------------------------------- *)

\* C1: a put_mines(m) that succeeds on a freshly constructed board leaves
\* exactly m cells holding a mine, and every other cell holds the number of
\* mines among its in-bounds 8-neighbours.
C1_ScatterExact ==
  (Returned("put_mines") /\ WasFresh) =>
    /\ Cardinality(MinesOf(board)) = ret.mines
    /\ \A k \in Cells :
         board[k] # Mine => board[k] = Cardinality(Around(board, k) \cap MinesOf(board))

C1_Witness ==
  /\ Returned("put_mines") /\ WasFresh
  /\ rows = 2 /\ ret.mines = 2
  /\ \E k \in Cells : board[k] = 2

\* C2 (as the specification states it): put_mines raises ScatterException
\* whenever mines were scattered before or a load_board has succeeded on the
\* board, whatever the count.
C2_ScatterOnlyAtStart ==
  (ret.op = "put_mines" /\ (~pre.startState \/ loaded)) =>
    ret.exc = "ScatterException"

\* C3: a make_move(row, column) that succeeds returns the value of the target
\* cell and changes the uncovered cells only: they are the old ones and the
\* target, and, when the target is no mine, the cells of the ripple sequence
\* computed once the target is uncovered.
C3_MoveUncovers ==
  Returned("make_move") =>
    LET after == Append(pre.uncovered, Target)
        ripple == ripple_sequence(pre.board, after, ret.row, ret.column).sequence
    IN  /\ ret.value = str(pre.board[Target])
        /\ board = pre.board
        /\ startState = pre.startState
        /\ Range(uncovered) =
             IF pre.board[Target] = Mine THEN Range(after)
             ELSE Range(after) \cup Range(ripple)

C3_Witness ==
  /\ Returned("make_move")
  /\ pre.uncovered # <<>>
  /\ board[Target] = 0
  /\ Len(uncovered) >= Len(pre.uncovered) + 3

\* C4: on every board, the uncover calls make_move makes over the ripple
\* sequence never raise: every cell of the sequence is a cell of the board,
\* is hidden, is not the target and occurs once.
C4_RippleNeverRaises ==
  ret.op = "make_move" =>
    /\ ~ret.inRipple
    /\ (Target \in DOMAIN pre.board /\ ~In(Target, pre.uncovered)) =>
         LET after == Append(pre.uncovered, Target)
             ripple == ripple_sequence(pre.board, after, ret.row, ret.column).sequence
         IN  /\ ret.exc = ""
             /\ NoRepeat(ripple)
             /\ \A i \in 1..Len(ripple) :
                  /\ ripple[i] \in DOMAIN pre.board
                  /\ ~In(ripple[i], after)
                  /\ ripple[i] # Target

C4_Witness ==
  /\ Returned("make_move")
  /\ loaded
  /\ pre.uncovered # <<>>
  /\ \E k \in Around(board, Target) : In(k, pre.uncovered)
  /\ Len(uncovered) >= Len(pre.uncovered) + 2

\* C5: ripple_sequence(row, column) is empty when the value of the cell is
\* not 0; when it is 0, no cell occurs twice in the result and every cell of
\* it is a hidden cell other than the origin, next to the origin or to a
\* 0-valued cell that comes before it in the result.
C5_RippleReachable ==
  Returned("ripple_sequence") =>
    LET seq == ret.sequence
    IN  /\ board[Target] # 0 => seq = <<>>
        /\ NoRepeat(seq)
        /\ \A i \in 1..Len(seq) :
             /\ seq[i] \in Cells
             /\ ~In(seq[i], uncovered)
             /\ seq[i] # Target
             /\ \/ seq[i] \in Around(board, Target)
                \/ \E j \in 1..(i - 1) :
                     board[seq[j]] = 0 /\ seq[i] \in Around(board, seq[j])

C5_Witness ==
  /\ Returned("ripple_sequence")
  /\ uncovered # <<>>
  /\ \E i \in 1..Len(ret.sequence) : ret.sequence[i] \notin Around(board, Target)
  /\ \E i \in 1..Len(ret.sequence) : board[ret.sequence[i]] \notin {0, Mine}

\* A depth-first expansion with the inclusion filter of ripple_sequence, as
\* the docstring describes the Recursive ripple type: each neighbour that
\* passes the filter is added, and a 0-valued one is expanded at once.
RECURSIVE depthFirst(_, _, _, _, _)
depthFirst(b, unc, origin, todo, seq) ==
  IF todo = <<>> THEN seq
  ELSE LET n == Head(todo)
           add == /\ n \in DOMAIN b /\ ~In(n, seq)
                  /\ n # origin /\ ~In(n, unc)
           seq1 == IF ~add THEN seq
                   ELSE IF b[n] = 0
                   THEN depthFirst(b, unc, origin,
                          << <<n[1]-1, n[2]>>, <<n[1]-1, n[2]+1>>, <<n[1], n[2]+1>>,
                             <<n[1]+1, n[2]+1>>, <<n[1]+1, n[2]>>, <<n[1]+1, n[2]-1>>,
                             <<n[1], n[2]-1>>, <<n[1]-1, n[2]-1>> >>,
                          Append(seq, n))
                   ELSE Append(seq, n)
       IN  depthFirst(b, unc, origin, Tail(todo), seq1)

recursiveRipple(b, unc, origin) ==
  IF b[origin] # 0 THEN <<>>
  ELSE depthFirst(b, unc, origin,
         << <<origin[1]-1, origin[2]>>, <<origin[1]-1, origin[2]+1>>,
            <<origin[1], origin[2]+1>>, <<origin[1]+1, origin[2]+1>>,
            <<origin[1]+1, origin[2]>>, <<origin[1]+1, origin[2]-1>>,
            <<origin[1], origin[2]-1>>, <<origin[1]-1, origin[2]-1>> >>,
         <<>>)

\* C6: the cells ripple_sequence returns do not depend on the traversal
\* order: the queue expansion of the code gives the same set of cells as the
\* depth-first expansion with the same filter.
C6_SameCellsDepthFirst ==
  Returned("ripple_sequence") =>
    Range(ret.sequence) = Range(recursiveRipple(board, uncovered, Target))

C6_Witness ==
  /\ Returned("ripple_sequence")
  /\ Len(ret.sequence) >= 3
  /\ ret.sequence # recursiveRipple(board, uncovered, Target)

\* Place of neighbour n in the ring around cell k: 1 up, 2 up-right, 3 right,
\* 4 down-right, 5 down, 6 down-left, 7 left, 8 up-left
Clock(k, n) ==
  LET dr == n[1] - k[1]
      dc == n[2] - k[2]
  IN  CASE dr = -1 /\ dc = 0  -> 1
        [] dr = -1 /\ dc = 1  -> 2
        [] dr = 0  /\ dc = 1  -> 3
        [] dr = 1  /\ dc = 1  -> 4
        [] dr = 1  /\ dc = 0  -> 5
        [] dr = 1  /\ dc = -1 -> 6
        [] dr = 0  /\ dc = -1 -> 7
        [] dr = -1 /\ dc = -1 -> 8

\* The cells that expand, by place: 0 is the origin, j the j-th of the result
Expander(seq, j) == IF j = 0 THEN Target ELSE seq[j]

Expands(seq, j, n) ==
  board[Expander(seq, j)] = 0 /\ n \in Around(board, Expander(seq, j))

\* The first expanding cell that cell i of the result is next to
Discoverer(seq, i) ==
  CHOOSE j \in 0..(i - 1) :
    /\ Expands(seq, j, seq[i])
    /\ \A h \in 0..(j - 1) : ~Expands(seq, h, seq[i])

\* C7: the result of ripple_sequence is in breadth-first discovery order: it
\* holds every eligible neighbour of the origin and of each 0-valued cell of
\* the result, each cell placed by the first cell that discovers it, in the
\* order these cells come (the origin first), and clockwise from up within
\* one discoverer.
C7_BreadthFirstOrder ==
  (Returned("ripple_sequence") /\ board[Target] = 0) =>
    LET seq == ret.sequence
        eligible(n) == n # Target /\ ~In(n, uncovered)
    IN  /\ \A j \in 0..Len(seq) : \A n \in Cells :
             (Expands(seq, j, n) /\ eligible(n)) => In(n, seq)
        /\ \A i \in 1..Len(seq) : \E j \in 0..(i - 1) : Expands(seq, j, seq[i])
        /\ \A i \in 1..(Len(seq) - 1) :
             LET d1 == Discoverer(seq, i)
                 d2 == Discoverer(seq, i + 1)
             IN  \/ d1 < d2
                 \/ /\ d1 = d2
                    /\ Clock(Expander(seq, d1), seq[i])
                         < Clock(Expander(seq, d1), seq[i + 1])

C7_Witness ==
  /\ Returned("ripple_sequence")
  /\ Len(ret.sequence) >= 3
  /\ Discoverer(ret.sequence, 1) = 0
  /\ Discoverer(ret.sequence, 2) = 0
  /\ Discoverer(ret.sequence, 3) = 1

\* C8 (as the specification states it): get_status returns Win exactly when
\* the uncovered cells are exactly the cells that hold no mine.
C8_WinIffAllSafeUncovered ==
  ret.op = "get_status" =>
    (ret.status = Win <=> Range(uncovered) = Cells \ MinesOf(board))

\* C8 (amended): get_status returns Win exactly when some cell is uncovered
\* and the uncovered cells are exactly the cells that hold no mine; so on a
\* 1x2 board after put_mines(1), uncovering the cell without the mine wins.
C8_WinIffStartedAllSafeUncovered ==
  ret.op = "get_status" =>
    (ret.status = Win <=>
       (uncovered # <<>> /\ Range(uncovered) = Cells \ MinesOf(board)))

C8_Witness ==
  /\ ret.op = "get_status"
  /\ ret.status = Win
  /\ rows = 1 /\ columns = 2
  /\ ~loaded /\ ~startState
  /\ Len(uncovered) = 1

\* C9: get_status returns Lose exactly when some uncovered cell holds a mine,
\* also when every cell without a mine is uncovered (Lose comes before Win).
C9_LoseIffMineUncovered ==
  ret.op = "get_status" =>
    (ret.status = Lose <=> \E k \in MinesOf(board) : In(k, uncovered))

C9_Witness ==
  /\ ret.op = "get_status"
  /\ ret.status = Lose
  /\ \A k \in Cells \ MinesOf(board) : In(k, uncovered)
  /\ \E k \in MinesOf(board) : ~In(k, uncovered)

\* C10: a put_mines that raises ScatterException leaves the board as it
\* found it: the values of the cells, the uncovered cells and startState.
C10_FailedScatterChangesNothing ==
  (ret.op = "put_mines" /\ ret.exc = "ScatterException") =>
    /\ board = pre.board
    /\ uncovered = pre.uncovered
    /\ startState = pre.startState

C10_Witness ==
  /\ ret.op = "put_mines" /\ ret.exc = "ScatterException"
  /\ pre.startState
  /\ ret.mines = rows * columns

\* C11: uncover, get_value and is_hidden raise IllegalIndicesException exactly
\* when the coordinate is off the grid, whatever is uncovered; uncover raises
\* IllegalMoveException exactly when the coordinate is on the grid and the
\* cell is uncovered already, so the second uncover of a cell fails; get_value
\* and is_hidden raise nothing else.
C11_IndexAndMoveErrors ==
  /\ ret.op \in {"uncover", "get_value", "is_hidden"} =>
       /\ ret.exc = "IllegalIndicesException" <=> ~InGrid(Target)
       /\ ret.exc \in {"", "IllegalIndicesException", "IllegalMoveException"}
  /\ ret.op = "uncover" =>
       (ret.exc = "IllegalMoveException" <=>
          (InGrid(Target) /\ In(Target, pre.uncovered)))
  /\ ret.op \in {"get_value", "is_hidden"} => ret.exc # "IllegalMoveException"

C11_Witness ==
  /\ ret.op = "uncover" /\ ret.exc = "IllegalMoveException"
  /\ ~loaded
  /\ pre.uncovered = << Target >>

\* C12: in every reachable state of the board, the row lines save_board
\* writes load without error into a fresh board of the same dimensions, and
\* the loaded board has the same value in every cell and the same set of
\* uncovered cells.  (Every state of the board is there between two calls.)
C12_SaveLoadRoundTrip ==
  ret = Idle =>
    LET written == save_board(board, uncovered, rows, columns)
        r == load_board(emptyBoard(rows, columns), <<>>, rows, columns, written)
    IN  /\ r.exc = ""
        /\ r.board = board
        /\ Range(r.uncovered) = Range(uncovered)

C12_Witness ==
  /\ ret = Idle
  /\ MinesOf(board) # {}
  /\ \E k \in Cells : board[k] \in 1..8
  /\ Len(uncovered) >= 2
  /\ uncovered # listOf(Range(uncovered))
  /\ \E k \in Cells : ~In(k, uncovered)

\* The pieces of the non-blank lines of a file, line by line
FilePieces(raw) ==
  LET stripped == [i \in 1..Len(raw) |-> strip(raw[i])]
      lines == SelectSeq(stripped, LAMBDA l : l # <<>>)
  IN  [i \in 1..Len(lines) |-> split(lines[i])]

WellFormed(piece) ==
  /\ Len(piece) = 2
  /\ piece[1] \in {"0", "1", "2", "3", "4", "5", "6", "7", "8", "*"}
  /\ piece[2] \in {"H", "S"}

AllWellFormed(pieces) ==
  \A i \in 1..Len(pieces) : \A j \in 1..Len(pieces[i]) : WellFormed(pieces[i][j])

ShapeFits(pieces) ==
  /\ Len(pieces) = rows
  /\ \A i \in 1..Len(pieces) : Len(pieces[i]) = columns

\* C13: load_board raises BoardFormatException when the input has no
\* non-blank line and when some piece is not a legal value followed by a
\* legal state, also when the count of rows or of pieces is wrong as well;
\* it raises DimensionsMismatchException exactly when there is a non-blank
\* line, every piece is well formed, and the count of non-blank lines is not
\* rows or the count of pieces of some line is not columns; otherwise it
\* raises nothing.
C13_LoadErrorPrecedence ==
  ret.op = "load_board" =>
    LET pieces == FilePieces(ret.lines)
        wellFormed == AllWellFormed(pieces)
        fits == ShapeFits(pieces)
    IN  /\ pieces = <<>> => ret.exc = "BoardFormatException"
        /\ ~wellFormed => ret.exc = "BoardFormatException"
        /\ ret.exc = "DimensionsMismatchException" <=>
             (pieces # <<>> /\ wellFormed /\ ~fits)
        /\ ret.exc = "" <=> (pieces # <<>> /\ wellFormed /\ fits)

C13_Witness ==
  /\ ret.op = "load_board"
  /\ ret.exc = "BoardFormatException"
  /\ ~AllWellFormed(FilePieces(ret.lines))
  /\ Len(FilePieces(ret.lines)) = rows
  /\ \E i \in 1..rows : Len(FilePieces(ret.lines)[i]) # columns

\* The status of the game as the call or the pass of the loop in ret found it
StatusBefore == get_status(pre.board, pre.uncovered, rows, columns)

StatusNow == get_status(board, uncovered, rows, columns)

\* C14: in a session, a pass of the run loop that finds the status Win or
\* Lose changes nothing of the board, whatever the user types: the cell
\* values, the uncovered cells and so the status stay as they were, and the
\* selection '3' is answered 'Illegal choice'.  So the uncovered cells change
\* only in passes that start from another status, and Win and Lose last to
\* the end of the session.
C14_FinishedGameFrozen ==
  (ret.op = "run" /\ StatusBefore \in {Win, Lose}) =>
    /\ board = pre.board
    /\ uncovered = pre.uncovered
    /\ startState = pre.startState
    /\ ret.status = StatusBefore
    /\ StatusNow = StatusBefore
    /\ ret.lines[1] = <<"3">> => ret.value = "Illegal choice"

C14_Witness ==
  /\ ret.op = "run"
  /\ ~loaded
  /\ StatusBefore = Lose
  /\ Len(uncovered) >= 2
  /\ ret.lines[1] = <<"3">>
  /\ \E k \in Cells : ~In(k, uncovered)

\* The command line of the main in ret asks for a board size out of
\* [1,20]x[2,50] or for a number of mines out of [1, rows*columns-1]
IllegalArguments ==
  \/ ret.row < 1 \/ ret.row > 20 \/ ret.column < 2 \/ ret.column > 50
  \/ ret.mines < 1 \/ ret.mines > ret.row * ret.column - 1

\* C15 (as the specification states it): main started without an input file
\* on illegal rows, columns or mines prints "Illegal rows/columns/mines
\* values" and returns: it raises nothing and starts no game.
C15_IllegalArgumentsReported ==
  (ret.op = "main" /\ IllegalArguments) =>
    /\ pc = "returned"
    /\ ret.exc = ""
    /\ ret.value = "Illegal rows/columns/mines values"

\* The coordinates with 0 <= row < rows and 0 <= column < columns
Grid == (0..(rows - 1)) \X (0..(columns - 1))

\* C16: in every reachable state (after the constructor, put_mines, a
\* load_board that succeeds or fails, and any uncover and make_move calls)
\* the cell mapping has an entry for exactly the coordinates of the grid,
\* and the uncovered list holds coordinates of the grid only, none twice.
C16_GridShape ==
  /\ DOMAIN board = Grid
  /\ \A i \in 1..Len(uncovered) : uncovered[i] \in Grid
  /\ NoRepeat(uncovered)

C16_Witness ==
  /\ ret = Idle
  /\ loaded /\ ~startState
  /\ moves = MaxMoves
  /\ rows = 2
  /\ Len(uncovered) = 3

\* C17 (as the specification states it): every put_mines call that passes
\* its check (1 <= mines <= rows*columns-1 and startState true) comes to its
\* end, with startState false, when the random source draws every cell again
\* and again.
C17_ScatterTerminates ==
  (pc = "scatter") ~> (pc = "calls" /\ ~startState)

\* C18: in a session on a board main has filled with put_mines, where cells
\* are uncovered by make_move only, every uncovered cell of value 0 has all
\* its in-bounds 8-neighbours uncovered after every move, also when an
\* earlier move had uncovered cells in the way of the flood fill.
C18_RevealClosure ==
  (pc \in {"run", "returned"} /\ ~loaded) =>
    \A k \in Cells :
      (In(k, uncovered) /\ board[k] = 0) =>
        \A n \in Around(board, k) : In(n, uncovered)

C18_Witness ==
  /\ pc = "run" /\ ~loaded
  /\ ret.op = "run" /\ ret.lines[1] = <<"3">> /\ ret.value = ""
  /\ rows >= 2
  /\ pre.uncovered # <<>>
  /\ Target \in Cells
  /\ board[Target] = 0
  /\ Len(uncovered) >= Len(pre.uncovered) + 2
  /\ \E k \in Cells : ~In(k, pre.uncovered) /\ In(k, uncovered) /\ board[k] = 0
                      /\ \E n \in Around(board, k) : In(n, pre.uncovered)

\* A make_move has returned normally: called by a client, or by the run loop
\* on a move the user typed
MoveMade ==
  \/ Returned("make_move")
  \/ ret.op = "run" /\ Len(ret.lines) = 2 /\ ret.value = ""

\* C19: on a board filled by put_mines and never loaded, a make_move on a
\* cell that holds no mine uncovers no mine (the target and the ripple
\* sequence hold none), so the status is Lose after the move only if it was
\* Lose before: a make_move turns the status into Lose only when its target
\* is a mine.
C19_SafeMoveUncoversNoMine ==
  (MoveMade /\ ~loaded /\ ~pre.startState) =>
    /\ pre.board[Target] # Mine =>
         \A k \in MinesOf(board) : In(k, uncovered) => In(k, pre.uncovered)
    /\ (StatusNow = Lose /\ StatusBefore # Lose) => pre.board[Target] = Mine

C19_Witness ==
  /\ MoveMade /\ ~loaded /\ ~pre.startState
  /\ rows >= 2
  /\ pre.uncovered # <<>>
  /\ board[Target] = 0
  /\ Len(uncovered) >= Len(pre.uncovered) + 3
  /\ \E k \in MinesOf(board) :
       /\ ~In(k, uncovered)
       /\ \E n \in Around(board, k) : In(n, uncovered) /\ ~In(n, pre.uncovered)
  /\ StatusNow = Win

\* C20: a make_move or an uncover that raises IllegalIndicesException or
\* IllegalMoveException leaves the board as it found it: the uncovered
\* cells, the value of every cell and startState are the same, and
\* get_status gives what it gave before the call.
C20_FailedMoveChangesNothing ==
  (/\ ret.op \in {"make_move", "uncover"}
   /\ ret.exc \in {"IllegalIndicesException", "IllegalMoveException"}) =>
    /\ uncovered = pre.uncovered
    /\ board = pre.board
    /\ startState = pre.startState
    /\ StatusNow = StatusBefore

C20_Witness ==
  /\ ret.op = "make_move"
  /\ ret.exc = "IllegalMoveException"
  /\ StatusBefore = InProgress
  /\ board[Target] = 0
  /\ \E k \in Cells : ~In(k, uncovered) /\ board[k] # Mine

\* C21: an uncover or a make_move, whether it returns or raises, removes no
\* coordinate from the uncovered cells and changes no cell value; so a
\* status of Lose before the call is Lose after it, and a status other than
\* NotStarted before the call is not NotStarted after it.  Step by step,
\* this holds over every sequence of uncover and make_move calls.
C21_MovesOnlyAdd ==
  ret.op \in {"uncover", "make_move"} =>
    LET before == StatusBefore
        now == StatusNow
    IN  /\ \A i \in 1..Len(pre.uncovered) : In(pre.uncovered[i], uncovered)
        /\ board = pre.board
        /\ before = Lose => now = Lose
        /\ before # NotStarted => now # NotStarted

C21_Witness ==
  /\ Returned("make_move")
  /\ StatusBefore = Lose
  /\ board[Target] = 0
  /\ Len(uncovered) >= Len(pre.uncovered) + 2
  /\ StatusNow = Lose

====
